---------------------------- MODULE Spec2Model ----------------------------
(***************************************************************************)
(* Document delivery protocol and dispatch pipeline of react-doc-viewer.  *)
(*                                                                         *)
(* The repository holds three variants of the DocumentViewer component:   *)
(*   "App"  src/src/App.tsx                                                *)
(*   "B"    src/unnamed/part_000, lines 1-371   (debug-log variant)        *)
(*   "C"    src/unnamed/part_000, lines 373-778 (URL-parameter variant)    *)
(* One behaviour of the model is one session of one variant.              *)
(*                                                                         *)
(* A step of the model is one task of the JavaScript event loop: an event  *)
(* handler or a promise continuation, run up to its next suspension.       *)
(* Continuations that are separated only by microtask hops are a pending   *)
(* microtask that pre-empts every other step.                              *)
(***************************************************************************)
EXTENDS Integers, Sequences, FiniteSets, Bags, TLC

(***************************************************************************)
(* Bounds of the model.                                                    *)
(***************************************************************************)
MaxRequests == 2        \* load requests accepted in one session
MaxChatter == 1         \* inbound messages that are not load requests
MaxName == 2            \* characters before the extension of a host's file name
MaxBytes == 2           \* bytes of a document a host encodes

(***************************************************************************)
(* Strings are sequences of one-character strings.                         *)
(***************************************************************************)
Upper == <<"A","B","C","D","E","F","G","H","I","J","K","L","M",
           "N","O","P","Q","R","S","T","U","V","W","X","Y","Z">>
Lower == <<"a","b","c","d","e","f","g","h","i","j","k","l","m",
           "n","o","p","q","r","s","t","u","v","w","x","y","z">>
Digits == <<"0","1","2","3","4","5","6","7","8","9">>

Range(s) == {s[i] : i \in 1..Len(s)}

IndexOf(s, c) == CHOOSE i \in 1..Len(s) : s[i] = c

toLowerCase(s) ==
    [i \in 1..Len(s) |->
        IF s[i] \in Range(Upper) THEN Lower[IndexOf(Upper, s[i])] ELSE s[i]]

\* file.name.split('.').pop(): the substring after the last '.', the whole
\* name when it holds no '.'
splitPop(name) ==
    LET dots == {i \in 1..Len(name) : name[i] = "."}
        last == IF dots = {} THEN 0
                ELSE CHOOSE i \in dots : \A j \in dots : j <= i
    IN  SubSeq(name, last + 1, Len(name))

fileExtension(name) == toLowerCase(splitPop(name))

\* the branch processFile takes for a file name
classify(name) ==
    LET ext == fileExtension(name)
    IN  IF ext = <<"d","o","c","x">> \/ ext = <<"d","o","c">> THEN "word"
        ELSE IF ext = <<"x","l","s","x">> \/ ext = <<"x","l","s">> THEN "excel"
        ELSE IF ext = <<"p","p","t","x">> \/ ext = <<"p","p","t">>
             THEN "powerpoint"
        ELSE "unknown"

(***************************************************************************)
(* atob: the forgiving-base64 decode of the platform.                      *)
(***************************************************************************)
B64Alphabet == Upper \o Lower \o Digits \o <<"+","/">>
AsciiWhitespace == {" ", "\t", "\n", "\f", "\r"}

B64Val(c) == IndexOf(B64Alphabet, c) - 1

stripWhitespace(s) == SelectSeq(s, LAMBDA c : c \notin AsciiWhitespace)

stripPadding(s) ==
    IF Len(s) % 4 # 0 \/ Len(s) = 0 THEN s
    ELSE IF s[Len(s)] # "=" THEN s
    ELSE IF s[Len(s) - 1] # "=" THEN SubSeq(s, 1, Len(s) - 1)
    ELSE SubSeq(s, 1, Len(s) - 2)

RECURSIVE b64Bytes(_)
b64Bytes(s) ==
    IF Len(s) = 0 THEN <<>>
    ELSE IF Len(s) = 2 THEN
        <<B64Val(s[1]) * 4 + (B64Val(s[2]) \div 16)>>
    ELSE IF Len(s) = 3 THEN
        <<B64Val(s[1]) * 4 + (B64Val(s[2]) \div 16),
          (B64Val(s[2]) % 16) * 16 + (B64Val(s[3]) \div 4)>>
    ELSE
        <<B64Val(s[1]) * 4 + (B64Val(s[2]) \div 16),
          (B64Val(s[2]) % 16) * 16 + (B64Val(s[3]) \div 4),
          (B64Val(s[3]) % 4) * 64 + B64Val(s[4])>>
        \o b64Bytes(SubSeq(s, 5, Len(s)))

\* atob(base64Data) throws InvalidCharacterError
atobThrows(data) ==
    LET s == stripPadding(stripWhitespace(data))
    IN  \/ Len(s) % 4 = 1
        \/ \E i \in 1..Len(s) : s[i] \notin Range(B64Alphabet)

\* the char codes of atob(base64Data), copied into byteNumbers / byteArray
atobSevenBit(data) ==
    LET bytes == b64Bytes(stripPadding(stripWhitespace(data)))
    IN  [i \in 1..Len(bytes) |-> bytes[i] % 128]

atob(data) == b64Bytes(stripPadding(stripWhitespace(data)))

\* the standard base64 encoding (RFC 4648) a host applies to a document
RECURSIVE base64Encode(_)
base64Encode(B) ==
    IF Len(B) = 0 THEN <<>>
    ELSE IF Len(B) = 1 THEN
        <<B64Alphabet[(B[1] \div 4) + 1],
          B64Alphabet[(B[1] % 4) * 16 + 1], "=", "=">>
    ELSE IF Len(B) = 2 THEN
        <<B64Alphabet[(B[1] \div 4) + 1],
          B64Alphabet[(B[1] % 4) * 16 + (B[2] \div 16) + 1],
          B64Alphabet[(B[2] % 16) * 4 + 1], "=">>
    ELSE
        <<B64Alphabet[(B[1] \div 4) + 1],
          B64Alphabet[(B[1] % 4) * 16 + (B[2] \div 16) + 1],
          B64Alphabet[(B[2] % 16) * 4 + (B[3] \div 64) + 1],
          B64Alphabet[(B[3] % 64) + 1]>>
        \o base64Encode(SubSeq(B, 4, Len(B)))

(***************************************************************************)
(* Values of the session.                                                  *)
(***************************************************************************)
\* file names a host or a user supplies
NameXlsx == <<"a",".","x","l","s","x">>
NameDocx == <<"b",".","D","O","C","X">>
NamePptx == <<"c",".","p","p","t">>
NameCsv  == <<"d",".","c","s","v">>
FileNames == {NameXlsx, NameDocx, NamePptx, NameCsv}
\* a file name without any '.'
NameBare == <<"d","o","c">>

\* fileData strings: "QQ==" (one byte), "" (no byte), "n-!!" (not base64)
DataValid == <<"Q","Q","=","=">>
DataEmpty == <<>>
DataBad   == <<"n","-","!","!">>
FileDatas == {DataValid, DataEmpty, DataBad}

\* String(undefined), the name new File([blob], undefined) gets
Undefined == <<"u","n","d","e","f","i","n","e","d">>

File(bytes, name) == [name |-> name, bytes |-> bytes]

\* files a user can pick in the upload input
UploadFiles == {File(<<65>>, n) : n \in FileNames}

\* An inbound message event.  noise: event.data contains 'setImmedia' (and
\* so matches both includes() tests of the listener).  json: what
\* JSON.parse(event.data) makes of it; has: the fields the object carries.
Raw(noise, json, type, has, fileData, fileName) ==
    [noise |-> noise, json |-> json, type |-> type, has |-> has,
     fileData |-> fileData, fileName |-> fileName]

LoadDocument(fileData, fileName) ==
    Raw(FALSE, "object", "LOAD_DOCUMENT", {"fileData", "fileName"},
        fileData, fileName)

LoadMessages ==
    {LoadDocument(DataValid, n) : n \in FileNames}
    \cup {LoadDocument(DataEmpty, NamePptx), LoadDocument(DataBad, NameXlsx)}
    \cup {LoadDocument(DataValid, NameBare)}

NoiseText   == Raw(TRUE, "invalid", "", {}, <<>>, <<>>)
GarbageText == Raw(FALSE, "invalid", "", {}, <<>>, <<>>)
JsonNull    == Raw(FALSE, "null", "", {}, <<>>, <<>>)
OtherType   == Raw(FALSE, "object", "PING", {}, <<>>, <<>>)
NoType      == Raw(FALSE, "object", "", {}, <<>>, <<>>)
NoFileData  == Raw(FALSE, "object", "LOAD_DOCUMENT", {"fileName"},
                   <<>>, NameXlsx)
NoFileName  == Raw(FALSE, "object", "LOAD_DOCUMENT", {"fileData"},
                   DataValid, <<>>)
NoiseLoad   == Raw(TRUE, "object", "LOAD_DOCUMENT", {"fileData", "fileName"},
                   DataValid, NameXlsx)

ChatterMessages ==
    {NoiseText, GarbageText, JsonNull, OtherType, NoType, NoFileData}

Inbound == LoadMessages \cup ChatterMessages \cup {NoFileName, NoiseLoad}

(***************************************************************************)
(* Error messages.  The text of a platform error is the engine's; the      *)
(* listener only tests it for three substrings.                            *)
(***************************************************************************)
MsgUnsupported == "Unsupported file type"
MsgUnsupportedC == "Unsupported file type. Please upload Word (.docx, .doc), Excel (.xlsx, .xls), or PowerPoint (.pptx, .ppt) files."
MsgFetchNotOk == "Failed to fetch file"
MsgFetchRejected == "TypeError: Failed to fetch"
MsgUrlFallback == "Error loading file from URL"
MsgNoContainer == "Viewer container not available"
MsgAtob        == "InvalidCharacterError: not correctly encoded"
MsgLoadFallback   == "Error loading file from data"
MsgUploadFallback == "Error processing file"
MsgParseFallback  == "Unknown error parsing message"
MsgTypeError   == "TypeError: cannot read properties"
\* SyntaxError texts of JSON.parse: V8 echoes the first characters of the
\* source and ends in 'is not valid JSON'; other engines do neither
MsgSyntaxPlain == "SyntaxError: JSON Parse error"
MsgSyntaxV8    == "SyntaxError: Unexpected token is not valid JSON"
MsgSyntaxV8Echo == "SyntaxError: Unexpected token setImmedia is not valid JSON"

\* errorMessage.includes(...)
includesSetImmedia(msg) == msg = MsgSyntaxV8Echo
includesNotValidJSON(msg) == msg \in {MsgSyntaxV8, MsgSyntaxV8Echo}

\* the messages JSON.parse can throw for a text that is not JSON
SyntaxErrors(raw) ==
    IF raw.noise THEN {MsgSyntaxPlain, MsgSyntaxV8, MsgSyntaxV8Echo}
    ELSE {MsgSyntaxPlain, MsgSyntaxV8}

\* what an external processor (renderAsync, XLSX.read) can throw: an Error
\* with a message, or a value that is not an Error
ThrownError == "Error: corrupt document"
ThrownOther == "thrown value that is not an Error"
ProcessorThrows == {ThrownError, ThrownOther}

\* err instanceof Error ? err.message : fallback
errorMessage(thrown, fallback) ==
    IF thrown = ThrownOther THEN fallback ELSE thrown

(***************************************************************************)
(* JSON.stringify and JSON.parse of the objects that cross the bridge: an  *)
(* object whose members are strings.  A JSON text is a sequence of         *)
(* characters.  A message type or an error text of the model holds no      *)
(* character that JSON escapes and is carried as one item of the text.     *)
(***************************************************************************)
Unit(text) == <<text>>

KeyType     == <<"t","y","p","e">>
KeyFileName == <<"f","i","l","e","N","a","m","e">>
KeyMessage  == <<"m","e","s","s","a","g","e">>

\* QuoteJSONString: the escape of one character
JSONEscapeNothing(c) == <<c>>

JSONEscape(c) ==
    IF c = "\"" THEN <<"\\", "\"">>
    ELSE IF c = "\\" THEN <<"\\", "\\">>
    ELSE IF c = "\n" THEN <<"\\", "n">>
    ELSE <<c>>

RECURSIVE escaped(_)
escaped(str) ==
    IF str = <<>> THEN <<>> ELSE JSONEscape(Head(str)) \o escaped(Tail(str))

quote(str) == <<"\"">> \o escaped(str) \o <<"\"">>

\* JSON.stringify(message): the members in insertion order, a member whose
\* value is undefined left out
JSONstringify(message) ==
    <<"{">> \o quote(KeyType) \o <<":">> \o quote(Unit(message.type))
    \o (IF message.fileName = <<>> THEN <<>>
        ELSE <<",">> \o quote(KeyFileName) \o <<":">>
             \o quote(message.fileName))
    \o (IF message.message = "" THEN <<>>
        ELSE <<",">> \o quote(KeyMessage) \o <<":">>
             \o quote(Unit(message.message)))
    \o <<"}">>

\* JSON.parse throws a SyntaxError
SyntaxError == [ok |-> FALSE, value |-> <<>>, next |-> 0]

\* the characters of a JSON string from position p, up to its closing quote
RECURSIVE scanString(_, _, _)
scanString(text, p, acc) ==
    IF p > Len(text) THEN SyntaxError
    ELSE IF text[p] = "\"" THEN [ok |-> TRUE, value |-> acc, next |-> p + 1]
    ELSE IF text[p] = "\n" THEN SyntaxError
    ELSE IF text[p] = "\\" THEN
        IF p + 1 > Len(text) THEN SyntaxError
        ELSE IF text[p + 1] = "n"
             THEN scanString(text, p + 2, Append(acc, "\n"))
        ELSE IF text[p + 1] \in {"\"", "\\"}
             THEN scanString(text, p + 2, Append(acc, text[p + 1]))
        ELSE SyntaxError
    ELSE scanString(text, p + 1, Append(acc, text[p]))

readString(text, p) ==
    IF p <= Len(text) /\ text[p] = "\"" THEN scanString(text, p + 1, <<>>)
    ELSE SyntaxError

\* the members of a JSON object from position p, up to its closing brace
RECURSIVE readMembers(_, _, _)
readMembers(text, p, acc) ==
    LET key == readString(text, p)
        val == readString(text, key.next + 1)
    IN  IF ~key.ok \/ key.next > Len(text) \/ text[key.next] # ":"
        THEN SyntaxError
        ELSE IF ~val.ok \/ val.next > Len(text) THEN SyntaxError
        ELSE IF text[val.next] = ","
             THEN readMembers(text, val.next + 1,
                              Append(acc, <<key.value, val.value>>))
        ELSE IF text[val.next] = "}" /\ val.next = Len(text)
             THEN [ok |-> TRUE,
                   value |-> Append(acc, <<key.value, val.value>>),
                   next |-> val.next + 1]
        ELSE SyntaxError

\* the value of a member of a parsed object, <<>> when it has none
member(object, key) ==
    LET at == {i \in 1..Len(object) : object[i][1] = key}
    IN  IF at = {} THEN <<>>
        ELSE object[CHOOSE i \in at : \A j \in at : j <= i][2]

\* JSON.parse(text), read as the message the host sees
JSONparse(text) ==
    LET object == IF Len(text) >= 2 /\ text[1] = "{"
                  THEN readMembers(text, 2, <<>>)
                  ELSE SyntaxError
        type == member(object.value, KeyType)
        message == member(object.value, KeyMessage)
    IN  IF ~object.ok \/ Len(type) # 1 \/ Len(message) > 1
        THEN [type |-> "SyntaxError", fileName |-> <<>>, message |-> ""]
        ELSE [type |-> type[1],
              fileName |-> member(object.value, KeyFileName),
              message |-> IF message = <<>> THEN "" ELSE message[1]]

(***************************************************************************)
(* State of one viewer session.                                            *)
(***************************************************************************)
VARIABLES
    variant,        \* which DocumentViewer source runs
    hasBridge,      \* window.ReactNativeWebView is present
    framed,         \* window.parent !== window
    isEmbedded,     \* useState isEmbedded, set by the mount effect
    readyTimer,     \* the setTimeout of the mount effect is pending
    selectedFile,   \* useState selectedFile: <<>> (null) or <<file>>
    fileType,       \* useState fileType
    isLoading,      \* useState isLoading
    error,          \* useState error
    excelData,      \* useState excelData: <<>> (null) or <<file>> (its sheets)
    viewerRef,      \* viewerRef.current is an element of the document
    viewerHTML,     \* what that element shows: <<>> or <<file>>
    tasks,          \* the load requests accepted so far, in order
    posted,         \* the bag of messages passed to postMessageToNative
                    \* (variant C: to window.parent.postMessage)
    chatter         \* inbound messages handled that started no load

vars == <<variant, hasBridge, framed, isEmbedded, readyTimer, selectedFile,
          fileType, isLoading, error, excelData, viewerRef, viewerHTML, tasks,
          posted, chatter>>

config == <<variant, hasBridge, framed, isEmbedded>>
view == <<selectedFile, fileType, isLoading, error, excelData>>

\* a request: the invocation of loadFileFromBase64 / loadFileFromUrl /
\* handleFileUpload and where its async function is suspended
Task(src, fileName, file, pc, thrown) ==
    [src |-> src, fileName |-> fileName, file |-> file, pc |-> pc,
     thrown |-> thrown, attached |-> FALSE]

Suspended == {"fetch", "body", "arrayBuffer", "renderAsync"}
Microtask == {"resolved", "rejected"}
Settled   == {"loaded", "failed"}

\* a continuation is queued as a microtask: it runs before any other task
NoMicrotask == \A i \in 1..Len(tasks) : tasks[i].pc \notin Microtask

ReturnedNormally == "returned"

NativeMessage(type, fileName, message) ==
    [type |-> type, fileName |-> fileName, message |-> message]

\* postMessageToNative logs every message and hands it to the bridge when
\* there is one
postMessageToNative(message) == posted' = posted (+) SetToBag({message})

postErrorToNative(message) ==
    postMessageToNative(NativeMessage("WEB_ERROR", <<>>, message))

\* what the host has received through ReactNativeWebView.postMessage
outbox == IF hasBridge THEN posted ELSE EmptyBag

\* the debug panel of App.tsx and variant B replaces the whole view (no
\* viewer element is rendered)
debugPanel ==
    variant # "C" /\ isEmbedded /\ (selectedFile = <<>> \/ error # "")

\* the state after the first render, before the mount effects
Mounted ==
    /\ isEmbedded \in BOOLEAN
    /\ selectedFile = <<>>
    /\ fileType = ""
    /\ error = ""
    /\ excelData = <<>>
    /\ viewerRef = FALSE
    /\ viewerHTML = <<>>
    /\ posted = EmptyBag
    /\ chatter = 0

(***************************************************************************)
(* The mount effect's timer and React's commit of a render.                *)
(***************************************************************************)
readyTimeout ==
    /\ readyTimer
    /\ NoMicrotask
    /\ readyTimer' = FALSE
    /\ postMessageToNative(NativeMessage("READY", <<>>, ""))
    /\ UNCHANGED <<config, view, viewerRef, viewerHTML, tasks, chatter>>

\* React commits the pending state: the viewer element exists exactly while
\* fileType is 'word' outside the debug panel; an element that is removed
\* takes its content with it and detaches the renders writing into it
render ==
    LET shown == fileType = "word" /\ ~debugPanel
    IN  /\ NoMicrotask
        /\ viewerRef # shown
        /\ viewerRef' = shown
        /\ viewerHTML' = <<>>
        /\ tasks' = [i \in 1..Len(tasks) |->
                        [tasks[i] EXCEPT !.attached = FALSE]]
        /\ UNCHANGED <<config, view, readyTimer, posted, chatter>>

(***************************************************************************)
(* processFile and the processors, up to their first await.                *)
(***************************************************************************)
\* processWordDocument / processExcelDocument / processPowerPointDocument
\* as called by processFile for request i: setFileType, then the await of
\* arrayBuffer() (word, excel), a plain return (powerpoint) or the throw
\* (no branch)
processFileFallsThrough(i, src, file) ==
    LET kind == classify(file.name)
        task == CASE kind \in {"word", "excel"} ->
                        Task(src, file.name, <<file>>, "arrayBuffer", "")
                  [] OTHER ->
                        Task(src, file.name, <<file>>, "resolved", "")
    IN  /\ fileType' = IF kind = "unknown" THEN "powerpoint" ELSE kind
        /\ tasks' = IF i \in 1..Len(tasks) THEN [tasks EXCEPT ![i] = task]
                    ELSE Append(tasks, task)

processFileRejectsSlides(i, src, file) ==
    LET kind == classify(file.name)
        task == CASE kind \in {"word", "excel"} ->
                        Task(src, file.name, <<file>>, "arrayBuffer", "")
                  [] kind = "powerpoint" /\ file.bytes # <<>> ->
                        Task(src, file.name, <<file>>, "resolved", "")
                  [] OTHER ->
                        Task(src, file.name, <<file>>, "rejected",
                             IF variant = "C" THEN MsgUnsupportedC
                             ELSE MsgUnsupported)
    IN  /\ fileType' = IF kind = "unknown" THEN fileType ELSE kind
        /\ tasks' = IF i \in 1..Len(tasks) THEN [tasks EXCEPT ![i] = task]
                    ELSE Append(tasks, task)

processFile(i, src, file) ==
    LET kind == classify(file.name)
        task == CASE kind \in {"word", "excel"} ->
                        Task(src, file.name, <<file>>, "arrayBuffer", "")
                  [] kind = "powerpoint" ->
                        Task(src, file.name, <<file>>, "resolved", "")
                  [] OTHER ->
                        Task(src, file.name, <<file>>, "rejected",
                             IF variant = "C" THEN MsgUnsupportedC
                             ELSE MsgUnsupported)
    IN  /\ fileType' = IF kind = "unknown" THEN fileType ELSE kind
        /\ tasks' = IF i \in 1..Len(tasks) THEN [tasks EXCEPT ![i] = task]
                    ELSE Append(tasks, task)

\* App.tsx and variant B: loadFileFromBase64 from its call to the await of
\* processFile, or through catch and finally when atob throws
loadFileFromBase64SilentCatch(base64Data, fileName) ==
    /\ Len(tasks) < MaxRequests
    /\ excelData' = <<>>
    /\ IF atobThrows(base64Data)
       THEN /\ error' = MsgAtob
            /\ isLoading' = FALSE
            /\ tasks' = Append(tasks,
                   Task("channel", fileName, <<>>, "failed", MsgAtob))
            /\ UNCHANGED <<selectedFile, fileType, posted>>
       ELSE /\ isLoading' = TRUE
            /\ error' = ""
            /\ selectedFile' = <<File(atob(base64Data), fileName)>>
            /\ processFile(Len(tasks) + 1, "channel",
                           File(atob(base64Data), fileName))
            /\ UNCHANGED posted

loadFileFromBase64KeepsError(base64Data, fileName) ==
    /\ Len(tasks) < MaxRequests
    /\ excelData' = <<>>
    /\ IF atobThrows(base64Data)
       THEN /\ error' = MsgAtob
            /\ postErrorToNative(MsgAtob)
            /\ isLoading' = FALSE
            /\ tasks' = Append(tasks,
                   Task("channel", fileName, <<>>, "failed", MsgAtob))
            /\ UNCHANGED <<selectedFile, fileType>>
       ELSE /\ isLoading' = TRUE
            /\ UNCHANGED error
            /\ selectedFile' = <<File(atob(base64Data), fileName)>>
            /\ processFile(Len(tasks) + 1, "channel",
                           File(atob(base64Data), fileName))
            /\ UNCHANGED posted

loadFileFromBase64ClearsSelection(base64Data, fileName) ==
    /\ Len(tasks) < MaxRequests
    /\ excelData' = <<>>
    /\ IF atobThrows(base64Data)
       THEN /\ error' = MsgAtob
            /\ postErrorToNative(MsgAtob)
            /\ isLoading' = FALSE
            /\ tasks' = Append(tasks,
                   Task("channel", fileName, <<>>, "failed", MsgAtob))
            /\ selectedFile' = <<>>
            /\ UNCHANGED fileType
       ELSE /\ isLoading' = TRUE
            /\ error' = ""
            /\ selectedFile' = <<File(atob(base64Data), fileName)>>
            /\ processFile(Len(tasks) + 1, "channel",
                           File(atob(base64Data), fileName))
            /\ UNCHANGED posted

loadFileFromBase64(base64Data, fileName) ==
    /\ Len(tasks) < MaxRequests
    /\ excelData' = <<>>
    /\ IF atobThrows(base64Data)
       THEN /\ error' = MsgAtob
            /\ postErrorToNative(MsgAtob)
            /\ isLoading' = FALSE
            /\ tasks' = Append(tasks,
                   Task("channel", fileName, <<>>, "failed", MsgAtob))
            /\ UNCHANGED <<selectedFile, fileType>>
       ELSE /\ isLoading' = TRUE
            /\ error' = ""
            /\ selectedFile' = <<File(atob(base64Data), fileName)>>
            /\ processFile(Len(tasks) + 1, "channel",
                           File(atob(base64Data), fileName))
            /\ UNCHANGED posted

\* variant C: loadFileFromBase64 notifies nobody
loadFileFromBase64C(base64Data, fileName) ==
    /\ Len(tasks) < MaxRequests
    /\ excelData' = <<>>
    /\ UNCHANGED posted
    /\ IF atobThrows(base64Data)
       THEN /\ error' = MsgAtob
            /\ isLoading' = FALSE
            /\ tasks' = Append(tasks,
                   Task("channel", fileName, <<>>, "failed", MsgAtob))
            /\ UNCHANGED <<selectedFile, fileType>>
       ELSE /\ isLoading' = TRUE
            /\ error' = ""
            /\ selectedFile' = <<File(atob(base64Data), fileName)>>
            /\ processFile(Len(tasks) + 1, "channel",
                           File(atob(base64Data), fileName))

(***************************************************************************)
(* The message listeners.                                                  *)
(***************************************************************************)
\* a message that starts no load and passes nothing to the host
dropped ==
    /\ chatter < MaxChatter
    /\ chatter' = chatter + 1
    /\ UNCHANGED <<view, tasks, posted>>

\* the catch block of the listener of App.tsx and variant B
parseFailedUnfiltered(message, filtersNotValidJSON) ==
    IF includesSetImmedia(message)
    THEN dropped
    ELSE /\ chatter < MaxChatter
         /\ chatter' = chatter + 1
         /\ postErrorToNative(message)
         /\ UNCHANGED <<view, tasks>>

parseFailed(message, filtersNotValidJSON) ==
    IF \/ includesSetImmedia(message)
       \/ filtersNotValidJSON /\ includesNotValidJSON(message)
    THEN dropped
    ELSE /\ chatter < MaxChatter
         /\ chatter' = chatter + 1
         /\ postErrorToNative(message)
         /\ UNCHANGED <<view, tasks>>

\* the try block of the listener of App.tsx and variant B
parseMessageRejectsOtherTypes(raw, filtersNotValidJSON) ==
    CASE raw.json = "invalid" ->
            \E m \in SyntaxErrors(raw) : parseFailed(m, filtersNotValidJSON)
      [] raw.json = "null" ->
            parseFailed(MsgTypeError, filtersNotValidJSON)
      [] raw.json = "object" /\ raw.type # "LOAD_DOCUMENT" ->
            parseFailed(MsgParseFallback, filtersNotValidJSON)
      [] raw.json = "object" /\ raw.type = "LOAD_DOCUMENT" ->
            IF "fileData" \notin raw.has
            THEN parseFailed(MsgTypeError, filtersNotValidJSON)
            ELSE /\ loadFileFromBase64(raw.fileData,
                        IF "fileName" \in raw.has THEN raw.fileName
                        ELSE Undefined)
                 /\ UNCHANGED chatter

parseMessage(raw, filtersNotValidJSON) ==
    CASE raw.json = "invalid" ->
            \E m \in SyntaxErrors(raw) : parseFailed(m, filtersNotValidJSON)
      [] raw.json = "null" ->
            parseFailed(MsgTypeError, filtersNotValidJSON)
      [] raw.json = "object" /\ raw.type # "LOAD_DOCUMENT" ->
            dropped
      [] raw.json = "object" /\ raw.type = "LOAD_DOCUMENT" ->
            IF "fileData" \notin raw.has
            THEN parseFailed(MsgTypeError, filtersNotValidJSON)
            ELSE /\ loadFileFromBase64(raw.fileData,
                        IF "fileName" \in raw.has THEN raw.fileName
                        ELSE Undefined)
                 /\ UNCHANGED chatter

\* App.tsx: the listener drops noise before it parses
handleMessage(raw) ==
    /\ variant = "App"
    /\ NoMicrotask
    /\ IF raw.noise THEN dropped ELSE parseMessage(raw, TRUE)
    /\ UNCHANGED <<config, readyTimer, viewerRef, viewerHTML>>

\* variant B: the listener parses everything
handleMessageB(raw) ==
    /\ variant = "B"
    /\ NoMicrotask
    /\ parseMessage(raw, FALSE)
    /\ UNCHANGED <<config, readyTimer, viewerRef, viewerHTML>>

\* variant C: the listener logs what it cannot parse
handleMessageC(raw) ==
    /\ variant = "C"
    /\ NoMicrotask
    /\ IF raw.json = "object" /\ raw.type = "LOAD_DOCUMENT"
       THEN /\ loadFileFromBase64C(
                   IF "fileData" \in raw.has THEN raw.fileData ELSE Undefined,
                   IF "fileName" \in raw.has THEN raw.fileName ELSE Undefined)
            /\ UNCHANGED chatter
       ELSE dropped
    /\ UNCHANGED <<config, readyTimer, viewerRef, viewerHTML>>

\* the upload input is rendered outside embedded mode while no file is
\* selected
handleFileUpload(file) ==
    /\ NoMicrotask
    /\ ~isEmbedded
    /\ selectedFile = <<>>
    /\ Len(tasks) < MaxRequests
    /\ selectedFile' = <<file>>
    /\ isLoading' = TRUE
    /\ error' = ""
    /\ excelData' = <<>>
    /\ processFile(Len(tasks) + 1, "upload", file)
    /\ UNCHANGED <<config, readyTimer, viewerRef, viewerHTML, posted, chatter>>

(***************************************************************************)
(* Continuations.                                                          *)
(***************************************************************************)
settled(i, outcome) ==
    [tasks EXCEPT ![i].pc = IF outcome = ReturnedNormally THEN "loaded"
                            ELSE "failed",
                  ![i].thrown = IF outcome = ReturnedNormally THEN ""
                                ELSE outcome,
                  ![i].attached = FALSE]

\* App.tsx and variant B, loadFileFromBase64 after await processFile:
\* LOADED, or catch; then finally
loadFileFromBase64SkipsFinally(i, outcome) ==
    /\ UNCHANGED isLoading
    /\ tasks' = settled(i, outcome)
    /\ IF outcome = ReturnedNormally
       THEN /\ UNCHANGED error
            /\ postMessageToNative(
                   NativeMessage("LOADED", tasks[i].fileName, ""))
       ELSE /\ error' = errorMessage(outcome, MsgLoadFallback)
            /\ postErrorToNative(errorMessage(outcome, MsgLoadFallback))

loadFileFromBase64ResumeNeedsBridge(i, outcome) ==
    /\ isLoading' = FALSE
    /\ IF outcome = ReturnedNormally /\ hasBridge
       THEN /\ tasks' = settled(i, outcome)
            /\ UNCHANGED error
            /\ postMessageToNative(
                   NativeMessage("LOADED", tasks[i].fileName, ""))
       ELSE IF outcome = ReturnedNormally
       THEN /\ tasks' = settled(i, MsgTypeError)
            /\ error' = MsgTypeError
            /\ UNCHANGED posted
       ELSE /\ tasks' = settled(i, outcome)
            /\ error' = errorMessage(outcome, MsgLoadFallback)
            /\ postErrorToNative(errorMessage(outcome, MsgLoadFallback))

loadFileFromBase64Resume(i, outcome) ==
    /\ isLoading' = FALSE
    /\ tasks' = settled(i, outcome)
    /\ IF outcome = ReturnedNormally
       THEN /\ UNCHANGED error
            /\ postMessageToNative(
                   NativeMessage("LOADED", tasks[i].fileName, ""))
       ELSE /\ error' = errorMessage(outcome, MsgLoadFallback)
            /\ postErrorToNative(errorMessage(outcome, MsgLoadFallback))

\* variant C, loadFileFromBase64 after await processFile
loadFileFromBase64CResume(i, outcome) ==
    /\ isLoading' = FALSE
    /\ tasks' = settled(i, outcome)
    /\ error' = IF outcome = ReturnedNormally THEN error
                ELSE errorMessage(outcome, MsgLoadFallback)
    /\ UNCHANGED posted

\* handleFileUpload after await processFile
handleFileUploadResume(i, outcome) ==
    /\ isLoading' = FALSE
    /\ tasks' = settled(i, outcome)
    /\ error' = IF outcome = ReturnedNormally THEN error
                ELSE errorMessage(outcome, MsgUploadFallback)
    /\ UNCHANGED posted

\* variant C, loadFileFromUrl after await processFile, or its catch; then
\* finally
loadFileFromUrlSkipsFinally(i, outcome) ==
    /\ UNCHANGED isLoading
    /\ tasks' = settled(i, outcome)
    /\ IF outcome = ReturnedNormally
       THEN /\ UNCHANGED error
            /\ posted' = IF framed
                         THEN posted (+) SetToBag(
                                {NativeMessage("LOADED", tasks[i].fileName, "")})
                         ELSE posted
       ELSE /\ error' = errorMessage(outcome, MsgUrlFallback)
            /\ posted' = IF framed
                         THEN posted (+) SetToBag(
                                {NativeMessage("ERROR", <<>>,
                                    errorMessage(outcome, MsgUrlFallback))})
                         ELSE posted

loadFileFromUrlResume(i, outcome) ==
    /\ isLoading' = FALSE
    /\ tasks' = settled(i, outcome)
    /\ IF outcome = ReturnedNormally
       THEN /\ UNCHANGED error
            /\ posted' = IF framed
                         THEN posted (+) SetToBag(
                                {NativeMessage("LOADED", tasks[i].fileName, "")})
                         ELSE posted
       ELSE /\ error' = errorMessage(outcome, MsgUrlFallback)
            /\ posted' = IF framed
                         THEN posted (+) SetToBag(
                                {NativeMessage("ERROR", <<>>,
                                    errorMessage(outcome, MsgUrlFallback))})
                         ELSE posted

\* processFile has settled for request i: its caller goes on
resume(i, outcome) ==
    CASE tasks[i].src = "upload" -> handleFileUploadResume(i, outcome)
      [] tasks[i].src = "url" -> loadFileFromUrlResume(i, outcome)
      [] tasks[i].src = "channel" /\ variant = "C" ->
            loadFileFromBase64CResume(i, outcome)
      [] OTHER -> loadFileFromBase64Resume(i, outcome)

\* processFile settled without suspending (powerpoint, unsupported type)
processFileSettled(i) ==
    /\ tasks[i].pc \in Microtask
    /\ resume(i, IF tasks[i].pc = "resolved" THEN ReturnedNormally
                 ELSE tasks[i].thrown)
    /\ UNCHANGED <<config, readyTimer, selectedFile, fileType, excelData,
                   viewerRef, viewerHTML, chatter>>

\* App.tsx and variant B: processWordDocument after await file.arrayBuffer()
processWordDocument(i) ==
    /\ variant # "C"
    /\ NoMicrotask
    /\ tasks[i].pc = "arrayBuffer"
    /\ classify(tasks[i].fileName) = "word"
    /\ IF viewerRef
       THEN /\ viewerHTML' = <<>>
            /\ tasks' = [tasks EXCEPT ![i].pc = "renderAsync",
                                      ![i].attached = TRUE]
            /\ UNCHANGED <<isLoading, error, posted>>
       ELSE /\ resume(i, MsgNoContainer)
            /\ UNCHANGED viewerHTML
    /\ UNCHANGED <<config, readyTimer, selectedFile, fileType, excelData,
                   viewerRef, chatter>>

\* variant C: processWordDocument after await file.arrayBuffer() returns
\* when there is no viewer element
processWordDocumentC(i) ==
    /\ variant = "C"
    /\ NoMicrotask
    /\ tasks[i].pc = "arrayBuffer"
    /\ classify(tasks[i].fileName) = "word"
    /\ IF viewerRef
       THEN /\ viewerHTML' = <<>>
            /\ tasks' = [tasks EXCEPT ![i].pc = "renderAsync",
                                      ![i].attached = TRUE]
            /\ UNCHANGED <<isLoading, error, posted>>
       ELSE /\ resume(i, ReturnedNormally)
            /\ UNCHANGED viewerHTML
    /\ UNCHANGED <<config, readyTimer, selectedFile, fileType, excelData,
                   viewerRef, chatter>>

\* renderAsync settles: the document is in the element it was given
renderAsync(i) ==
    /\ NoMicrotask
    /\ tasks[i].pc = "renderAsync"
    /\ \/ /\ viewerHTML' = IF tasks[i].attached THEN tasks[i].file
                           ELSE viewerHTML
          /\ resume(i, ReturnedNormally)
       \/ /\ \E thrown \in ProcessorThrows : resume(i, thrown)
          /\ UNCHANGED viewerHTML
    /\ UNCHANGED <<config, readyTimer, selectedFile, fileType, excelData,
                   viewerRef, chatter>>

\* processExcelDocument after await file.arrayBuffer()
processExcelDocumentLateType(i) ==
    /\ NoMicrotask
    /\ tasks[i].pc = "arrayBuffer"
    /\ classify(tasks[i].fileName) = "excel"
    /\ fileType' = "excel"
    /\ \/ /\ excelData' = tasks[i].file
          /\ resume(i, ReturnedNormally)
       \/ /\ \E thrown \in ProcessorThrows : resume(i, thrown)
          /\ UNCHANGED excelData
    /\ UNCHANGED <<config, readyTimer, selectedFile, viewerRef,
                   viewerHTML, chatter>>

processExcelDocument(i) ==
    /\ NoMicrotask
    /\ tasks[i].pc = "arrayBuffer"
    /\ classify(tasks[i].fileName) = "excel"
    /\ \/ /\ excelData' = tasks[i].file
          /\ resume(i, ReturnedNormally)
       \/ /\ \E thrown \in ProcessorThrows : resume(i, thrown)
          /\ UNCHANGED excelData
    /\ UNCHANGED <<config, readyTimer, selectedFile, fileType, viewerRef,
                   viewerHTML, chatter>>

\* variant C, loadFileFromUrl after await fetch(url): a rejected fetch or a
\* response that is not ok goes to catch, an ok response to the await of
\* response.arrayBuffer()
fetchSettled(i) ==
    /\ NoMicrotask
    /\ tasks[i].pc = "fetch"
    /\ \/ /\ tasks' = [tasks EXCEPT ![i].pc = "body"]
          /\ UNCHANGED <<isLoading, error, posted>>
       \/ \E thrown \in {MsgFetchRejected, MsgFetchNotOk} : resume(i, thrown)
    /\ UNCHANGED <<config, readyTimer, selectedFile, fileType, excelData,
                   viewerRef, viewerHTML, chatter>>

\* variant C, loadFileFromUrl after await response.arrayBuffer(): the File,
\* setSelectedFile and processFile up to its first await
bodySettled(i) ==
    /\ NoMicrotask
    /\ tasks[i].pc = "body"
    /\ \/ \E bytes \in {<<65>>} :
            /\ selectedFile' = <<File(bytes, tasks[i].fileName)>>
            /\ processFile(i, "url", File(bytes, tasks[i].fileName))
            /\ UNCHANGED <<isLoading, error, posted>>
       \/ /\ resume(i, MsgFetchRejected)
          /\ UNCHANGED <<selectedFile, fileType>>
    /\ UNCHANGED <<config, readyTimer, excelData, viewerRef, viewerHTML,
                   chatter>>

(***************************************************************************)
(* Specifications: one session of src/src/App.tsx, one of variant B, one   *)
(* of variant C, and one of any variant.                                   *)
(***************************************************************************)
\* the mount effect of App.tsx and variant B starts the READY timer in
\* embedded mode
MountedNative ==
    /\ Mounted
    /\ hasBridge \in BOOLEAN
    /\ framed = FALSE
    /\ readyTimer = isEmbedded
    /\ isLoading = FALSE
    /\ tasks = <<>>

\* the mount effect of variant C calls loadFileFromUrl when the URL carries
\* fileUrl and fileName
MountedUrl ==
    /\ Mounted
    /\ hasBridge = FALSE
    /\ framed \in BOOLEAN
    /\ readyTimer = FALSE
    /\ \/ isLoading = FALSE /\ tasks = <<>>
       \/ \E fileName \in FileNames :
            /\ isLoading = TRUE
            /\ tasks = <<Task("url", fileName, <<>>, "fetch", "")>>

Continue ==
    \/ render
    \/ \E file \in UploadFiles : handleFileUpload(file)
    \/ \E i \in 1..Len(tasks) : processFileSettled(i)
    \/ \E i \in 1..Len(tasks) : renderAsync(i)
    \/ \E i \in 1..Len(tasks) : processExcelDocument(i)

ContinueNative ==
    \/ Continue
    \/ readyTimeout
    \/ \E i \in 1..Len(tasks) : processWordDocument(i)

InitApp == variant = "App" /\ MountedNative
NextApp == ContinueNative \/ \E raw \in Inbound : handleMessage(raw)
SpecApp == InitApp /\ [][NextApp]_vars

InitB == variant = "B" /\ MountedNative
NextB == ContinueNative \/ \E raw \in Inbound : handleMessageB(raw)
SpecB == InitB /\ [][NextB]_vars

InitC == variant = "C" /\ MountedUrl
NextC ==
    \/ Continue
    \/ \E raw \in Inbound : handleMessageC(raw)
    \/ \E i \in 1..Len(tasks) : processWordDocumentC(i)
    \/ \E i \in 1..Len(tasks) : fetchSettled(i)
    \/ \E i \in 1..Len(tasks) : bodySettled(i)
SpecC == InitC /\ [][NextC]_vars

\* a session of App.tsx with a host that sends one presentation, of any
\* name and any bytes, or one that is not base64
Strings(alphabet, n) == UNION {[1..k -> alphabet] : k \in 0..n}
NameChars == {"a", "\"", "\\", "\n"}
ByteValues == {0, 65, 200, 255}
HostNames == {stem \o <<".","p","p","t">> : stem \in Strings(NameChars, MaxName)}
HostBytes == Strings(ByteValues, MaxBytes)
HostMessages ==
    {LoadDocument(base64Encode(B), name) : B \in HostBytes, name \in HostNames}
    \cup {LoadDocument(DataBad, NamePptx)}
NextHost ==
    \/ readyTimeout
    \/ \E raw \in HostMessages : tasks = <<>> /\ handleMessage(raw)
    \/ \E i \in 1..Len(tasks) : processFileSettled(i)
SpecHost == InitApp /\ [][NextHost]_vars

Init == InitApp \/ InitB \/ InitC
Next ==
    \/ ContinueNative
    \/ \E raw \in Inbound : handleMessage(raw)
    \/ \E raw \in Inbound : handleMessageB(raw)
    \/ \E raw \in Inbound : handleMessageC(raw)
    \/ \E i \in 1..Len(tasks) : processWordDocumentC(i)
    \/ \E i \in 1..Len(tasks) : fetchSettled(i)
    \/ \E i \in 1..Len(tasks) : bodySettled(i)
Spec == Init /\ [][Next]_vars

\* a timer that was set fires, and a queued microtask runs
Fairness ==
    /\ WF_vars(readyTimeout)
    /\ WF_vars(\E i \in 1..Len(tasks) : processFileSettled(i))
SpecFair == Spec /\ Fairness

\* every started processor call resolves
Resolves ==
    /\ WF_vars(\E i \in 1..Len(tasks) : processWordDocument(i))
    /\ WF_vars(\E i \in 1..Len(tasks) : renderAsync(i))
    /\ WF_vars(\E i \in 1..Len(tasks) : processExcelDocument(i))
SpecAppFair == SpecApp /\ Fairness /\ Resolves

(***************************************************************************)
(* Vocabulary of the properties.                                           *)
(***************************************************************************)
Requests == 1..Len(tasks)

\* request i is suspended or queued before the step and settled after it
Completes(i) ==
    /\ i \in Requests
    /\ tasks[i].pc \notin Settled
    /\ tasks'[i].pc \in Settled

\* the lifecycle state the presentation shows
LoadState ==
    IF isLoading THEN "Loading"
    ELSE IF error # "" THEN "Error"
    ELSE IF selectedFile = <<>> THEN "Idle"
    ELSE "Ready"

Loaded(fileName) == NativeMessage("LOADED", fileName, "")
WebError(message) == NativeMessage("WEB_ERROR", <<>>, message)

\* how many messages of a type were passed to postMessageToNative
Count(type) ==
    LET msgs == {m \in BagToSet(posted) : m.type = type}
        RECURSIVE sum(_)
        sum(S) == IF S = {} THEN 0
                  ELSE LET m == CHOOSE x \in S : TRUE
                       IN  CopiesIn(m, posted) + sum(S \ {m})
    IN  sum(msgs)

\* the sheets or the rendered document of request i are on screen
ShowsContentOf(i) ==
    /\ tasks[i].file # <<>>
    /\ excelData = tasks[i].file \/ viewerHTML = tasks[i].file

(***************************************************************************)
(* C1. A completion of a request that is not the most recently accepted    *)
(* one leaves the loading flag, the error text, the spreadsheet data and   *)
(* the rendered document unchanged.                                        *)
(***************************************************************************)
C1_StaleCompletionInvisible ==
    [][\A i \in Requests :
          (i < Len(tasks) /\ Completes(i)) =>
              UNCHANGED <<isLoading, error, excelData, viewerHTML>>]_vars

(***************************************************************************)
(* C2. Requests #1 (a) and #2 (b) accepted in that order: once both have   *)
(* completed and #2 succeeded, the viewer is Ready, there is no error      *)
(* text, and no content of #1 is shown.                                    *)
(***************************************************************************)
C2_LastAcceptedWins ==
    ( /\ Len(tasks) = 2
      /\ tasks[1].src = "channel" /\ tasks[2].src = "channel"
      /\ tasks[1].fileName # tasks[2].fileName
      /\ tasks[1].pc \in Settled
      /\ tasks[2].pc = "loaded" )
    => /\ LoadState = "Ready"
       /\ ~ShowsContentOf(1)

(***************************************************************************)
(* C3. The completion of a superseded request passes neither LOADED nor    *)
(* WEB_ERROR to the host.                                                  *)
(***************************************************************************)
C3_StaleCompletionSilent ==
    [][\A i \in Requests :
          (i < Len(tasks) /\ Completes(i)) => UNCHANGED posted]_vars

(***************************************************************************)
(* C4. While the most recently accepted request has not completed, the     *)
(* loading flag is true.                                                   *)
(***************************************************************************)
C4_LoadingUntilLatestCompletes ==
    (tasks # <<>> /\ tasks[Len(tasks)].pc \notin Settled) => isLoading

(***************************************************************************)
(* C5. A single LOAD_DOCUMENT with valid base64 and a supported name whose *)
(* processor succeeds takes the viewer from Idle through Loading (the      *)
(* decoding is inside the accepting step) to Ready, and passes exactly one *)
(* LOADED with its fileName and no WEB_ERROR to the host.                  *)
(***************************************************************************)
C5_SingleLoadLifecycle ==
    [][( /\ Len(tasks') = 1
         /\ tasks'[1].src = "channel"
         /\ classify(tasks'[1].fileName) # "unknown"
         /\ tasks'[1].pc # "failed"
         /\ chatter' = 0 )
       => /\ <<LoadState, LoadState'>> \in
                {<<"Idle", "Loading">>, <<"Loading", "Loading">>,
                 <<"Loading", "Ready">>, <<"Ready", "Ready">>}
          /\ (LoadState' = "Ready") <=> (tasks'[1].pc = "loaded")
          /\ Count("WEB_ERROR")' = 0
          /\ Count("LOADED")' = IF tasks'[1].pc = "loaded" THEN 1 ELSE 0
          /\ tasks'[1].pc = "loaded" =>
                CopiesIn(Loaded(tasks'[1].fileName), posted') = 1]_vars

C5_Witness ==
    /\ Len(tasks) = 1
    /\ tasks[1].src = "channel"
    /\ tasks[1].pc = "loaded"
    /\ chatter = 0
    /\ LoadState = "Ready"
    /\ CopiesIn(Loaded(tasks[1].fileName), posted) = 1

(***************************************************************************)
(* C6. A LOAD_DOCUMENT whose fileData is not valid base64 ends in Error in *)
(* the step that accepts it: no processor is invoked (no File is made, the *)
(* renderer selection and the selected file stay), the error text is set,  *)
(* the loading flag is cleared, and the one message passed to the host is  *)
(* a WEB_ERROR.                                                            *)
(***************************************************************************)
C6_BadBase64IsError ==
    [][\A raw \in LoadMessages :
          (atobThrows(raw.fileData) /\ handleMessage(raw)) =>
              /\ LoadState' = "Error"
              /\ posted' = posted (+) SetToBag({WebError(error')})
              /\ Len(tasks') = Len(tasks) + 1
              /\ tasks'[Len(tasks')].pc = "failed"
              /\ tasks'[Len(tasks')].file = <<>>
              /\ UNCHANGED <<selectedFile, fileType, viewerHTML>>]_vars

C6_Witness ==
    \E i \in Requests :
        /\ tasks[i].src = "channel"
        /\ tasks[i].file = <<>>
        /\ tasks[i].pc = "failed"
        /\ LoadState = "Error"
        /\ error = MsgAtob
        /\ CopiesIn(WebError(MsgAtob), posted) = 1
        /\ Count("LOADED") = 0

(***************************************************************************)
(* C7. Every failure of acquisition or of dispatch, on every path and in   *)
(* every variant, sets the error text and passes a WEB_ERROR to the host.  *)
(***************************************************************************)
\* request i fails in this step: a suspended request is caught, or atob
\* throws for the request being accepted
Fails(i) ==
    /\ i \in 1..Len(tasks')
    /\ tasks'[i].pc = "failed"
    /\ i \in Requests => tasks[i].pc \notin Settled

C8_NoiseIsDropped ==
    [][\A raw \in Inbound :
          (raw.noise /\ (handleMessage(raw) \/ handleMessageB(raw))) =>
              UNCHANGED <<view, viewerHTML, tasks, posted>>]_vars

(***************************************************************************)
(* C9. An inbound string that is not noise and is no protocol envelope     *)
(* (not JSON, or JSON null) passes exactly one WEB_ERROR to the host and   *)
(* starts no load.                                                         *)
(***************************************************************************)
Undecodable == {raw \in Inbound : ~raw.noise /\ raw.json \in {"invalid", "null"}}

\* the error texts the listener can catch for an undecodable message
CaughtTexts(raw) ==
    IF raw.json = "null" THEN {MsgTypeError} ELSE SyntaxErrors(raw)

Handles(raw) ==
    handleMessage(raw) \/ handleMessageB(raw) \/ handleMessageC(raw)

C10_NextRequestAccepted ==
    [][\A raw \in LoadMessages :
          (~atobThrows(raw.fileData) /\ handleMessage(raw)) =>
              /\ LoadState' = "Loading"
              /\ error' = ""
              /\ Len(tasks') = Len(tasks) + 1
              /\ tasks'[Len(tasks')].pc \notin Settled]_vars

\* a request that failed and left its error text, then a later one that
\* reached Ready with LOADED
C10_Witness ==
    \E i \in Requests, j \in Requests :
        /\ i < j
        /\ tasks[i].pc = "failed"
        /\ tasks[j].src = "channel"
        /\ tasks[j].pc = "loaded"
        /\ LoadState = "Ready"
        /\ CopiesIn(Loaded(tasks[j].fileName), posted) = 1

(***************************************************************************)
(* C11. A file whose name selects no processor makes processFile throw the *)
(* unsupported-type error: the request is never suspended in a processor,  *)
(* its failure sets that error text, and neither its dispatch nor its      *)
(* failure changes fileType, the spreadsheet data or the rendered document.*)
(***************************************************************************)
\* request i reaches processFile in this step
Dispatches(i) ==
    /\ i \in 1..Len(tasks')
    /\ tasks'[i].file # <<>>
    /\ i \in Requests => tasks[i].file = <<>>

C11_UnknownKindFails ==
    [][\A i \in 1..Len(tasks') :
          (tasks'[i].file # <<>> /\ classify(tasks'[i].fileName) = "unknown")
          => /\ tasks'[i].pc \in {"rejected", "failed"}
             /\ tasks'[i].thrown =
                  IF variant = "C" THEN MsgUnsupportedC ELSE MsgUnsupported
             /\ Dispatches(i) => UNCHANGED <<fileType, viewerHTML>>
             /\ Completes(i) =>
                  /\ error' = tasks'[i].thrown
                  /\ UNCHANGED <<fileType, excelData, viewerHTML>>]_vars

\* d.csv failed after a.xlsx had selected the spreadsheet renderer
C11_Witness ==
    \E i \in Requests :
        /\ tasks[i].file # <<>>
        /\ classify(tasks[i].fileName) = "unknown"
        /\ tasks[i].pc = "failed"
        /\ error \in {MsgUnsupported, MsgUnsupportedC}
        /\ fileType = "excel"

(***************************************************************************)
(* C12. The processor a file is dispatched to is the one named by the      *)
(* lower-cased substring after the last '.' of its name; every other name, *)
(* and every name without a '.', is dispatched to none.                    *)
(***************************************************************************)
\* the classification the claim describes
ClaimedKind(name) ==
    IF "." \notin Range(name) THEN "unknown"
    ELSE LET ext == toLowerCase(splitPop(name))
         IN  IF ext \in {<<"d","o","c","x">>, <<"d","o","c">>} THEN "word"
             ELSE IF ext \in {<<"x","l","s","x">>, <<"x","l","s">>}
                  THEN "excel"
             ELSE IF ext \in {<<"p","p","t","x">>, <<"p","p","t">>}
                  THEN "powerpoint"
             ELSE "unknown"

\* the branch processFile took for request i, as its effects show
BranchTaken(i) ==
    IF tasks[i].pc = "rejected"
       \/ (tasks[i].pc = "failed"
           /\ tasks[i].thrown \in {MsgUnsupported, MsgUnsupportedC})
    THEN "unknown"
    ELSE classify(tasks[i].fileName)

C12_ClassifyByExtension ==
    \A i \in Requests :
        tasks[i].file # <<>> => BranchTaken(i) = ClaimedKind(tasks[i].fileName)

(***************************************************************************)
(* C13. In embedded mode exactly one READY is passed to the host, once the *)
(* settle delay has elapsed and whatever requests arrive before or after;  *)
(* outside embedded mode none ever is.                                     *)
(***************************************************************************)
C13_ReadyExactlyOnce ==
    /\ [](Count("READY") <= 1)
    /\ [](~isEmbedded => Count("READY") = 0)
    /\ [](readyTimer => Count("READY") = 0)
    /\ [](isEmbedded => <>(Count("READY") = 1))

(***************************************************************************)
(* C14. Under every interleaving of requests and completions the loading   *)
(* flag and a non-empty error text never hold together.                    *)
(***************************************************************************)
C14_NeverLoadingAndError == ~(isLoading /\ error # "")

\* an older request failed while the latest one is still in flight
C14_Witness ==
    /\ Len(tasks) = 2
    /\ tasks[1].pc = "failed"
    /\ tasks[2].pc \notin Settled
    /\ error # ""
    /\ ~isLoading

(***************************************************************************)
(* C15. Every channel request that reaches processFile carries a non-empty *)
(* file name and at least one byte.                                        *)
(***************************************************************************)
C15_AcceptedPayloadNonEmpty ==
    \A i \in Requests :
        (tasks[i].src = "channel" /\ tasks[i].file # <<>>) =>
            /\ tasks[i].file[1].name # <<>>
            /\ tasks[i].file[1].bytes # <<>>

(***************************************************************************)
(* C16. When renderAsync or XLSX.read throws, the error text that is set   *)
(* and sent in WEB_ERROR is not the raw message of what was thrown (nor    *)
(* the handler's fallback text): it is a wrapping that names the           *)
(* processor.                                                              *)
(***************************************************************************)
ProcessorFails(i) == Fails(i) /\ tasks'[i].thrown \in ProcessorThrows

\* the texts in which nothing names the processor
RawTexts(i) == {tasks'[i].thrown, MsgLoadFallback, MsgUploadFallback}

C16_ProcessorErrorWrapped ==
    [][\A i \in Requests :
          ProcessorFails(i) =>
              /\ error' \notin RawTexts(i)
              /\ \A m \in RawTexts(i) :
                    CopiesIn(WebError(m), posted')
                        = CopiesIn(WebError(m), posted)]_vars

(***************************************************************************)
(* C17. An inbound message that parses to an object whose type is not      *)
(* LOAD_DOCUMENT (another type, or none) starts no load, changes nothing   *)
(* of the lifecycle and passes nothing to the host, in every variant and   *)
(* whatever the lifecycle state.                                           *)
(***************************************************************************)
OtherTypes == {raw \in Inbound : raw.json = "object" /\ raw.type # "LOAD_DOCUMENT"}

Malformed ==
    {raw \in Inbound : /\ raw.json = "object"
                       /\ raw.type = "LOAD_DOCUMENT"
                       /\ raw.has # {"fileData", "fileName"}}

C18_MalformedLoadRejected ==
    [][\A raw \in Malformed :
          handleMessage(raw) =>
              /\ UNCHANGED <<view, tasks>>
              /\ Count("WEB_ERROR")' = Count("WEB_ERROR") + 1]_vars

(***************************************************************************)
(* C19. A viewer without the bridge takes the same lifecycle steps as one  *)
(* with it: the host receives nothing; the READY timer changes nothing on  *)
(* screen; a request whose processing succeeds completes as loaded,        *)
(* clearing the loading flag and leaving the error text; and every error   *)
(* text that is set is the text of a failed load, never of the transport.  *)
(***************************************************************************)
\* what a load can fail with
LoadFailures ==
    {MsgUnsupported, MsgUnsupportedC, MsgNoContainer, MsgAtob}
    \cup ProcessorThrows

C19_TransportAbsenceHarmless ==
    [][/\ ~hasBridge => outbox' = EmptyBag
       /\ readyTimeout => UNCHANGED <<view, viewerHTML, tasks>>
       /\ \A i \in 1..Len(tasks') :
             Fails(i) => tasks'[i].thrown \in LoadFailures
       /\ \A i \in Requests :
             (Completes(i) /\ tasks[i].pc \in {"resolved", "renderAsync"}
                 /\ tasks'[i].pc = "loaded")
             => isLoading' = FALSE /\ error' = error
       /\ (error' # error /\ error' # "") =>
             \E i \in 1..Len(tasks') :
                 /\ Fails(i)
                 /\ error' \in {tasks'[i].thrown, MsgLoadFallback,
                                MsgUploadFallback}]_vars

\* without the bridge, a request was loaded and READY and LOADED were
\* handed to postMessageToNative, which delivered neither
C19_Witness ==
    /\ ~hasBridge
    /\ \E i \in Requests : tasks[i].src = "channel" /\ tasks[i].pc = "loaded"
    /\ LoadState = "Ready"
    /\ Count("READY") = 1
    /\ Count("LOADED") = 1
    /\ outbox = EmptyBag

(***************************************************************************)
(* C20. A channel request with decodable data and a .ppt/.pptx name never  *)
(* fails: whatever its bytes, it completes right after it is accepted, the *)
(* viewer is Ready and one LOADED with its fileName is passed to the host. *)
(***************************************************************************)
Slides(t) ==
    /\ t.src = "channel"
    /\ t.file # <<>>
    /\ classify(t.fileName) = "powerpoint"

C20_PowerPointAlwaysLoads ==
    [][\A i \in 1..Len(tasks') :
          Slides(tasks'[i]) =>
              /\ tasks'[i].pc \in {"resolved", "loaded"}
              /\ Completes(i) =>
                    /\ LoadState' = "Ready"
                    /\ fileType' = "powerpoint"
                    /\ posted' = posted (+)
                          SetToBag({Loaded(tasks'[i].fileName)})]_vars

\* c.ppt was loaded from one byte and from no byte
C20_Witness ==
    /\ Len(tasks) = 2
    /\ \A i \in Requests : Slides(tasks[i]) /\ tasks[i].pc = "loaded"
    /\ tasks[1].file[1].bytes # tasks[2].file[1].bytes
    /\ LoadState = "Ready"
    /\ Count("LOADED") = 2

(***************************************************************************)
(* C21. A URL request whose fetch is rejected, whose response is not ok,   *)
(* or whose body cannot be read ends in Error in that step: the error text *)
(* is the failure's message, the loading flag is cleared, no File is made, *)
(* no processor runs, and the selected file, fileType, the spreadsheet     *)
(* data and the rendered document stay as they were.                       *)
(***************************************************************************)
C21_UrlFailureIsError ==
    [][\A i \in Requests :
          (tasks[i].src = "url" /\ tasks[i].pc \in {"fetch", "body"}
              /\ Fails(i))
          => /\ LoadState' = "Error"
             /\ error' \in {MsgFetchNotOk, MsgFetchRejected}
             /\ isLoading' = FALSE
             /\ tasks'[i].file = <<>>
             /\ UNCHANGED <<selectedFile, fileType, excelData,
                            viewerHTML>>]_vars

C21_Witness ==
    /\ tasks # <<>>
    /\ tasks[1].src = "url"
    /\ tasks[1].pc = "failed"
    /\ tasks[1].file = <<>>
    /\ tasks[1].thrown = MsgFetchNotOk
    /\ LoadState = "Error"
    /\ selectedFile = <<>>

(***************************************************************************)
(* C22. Every message handed to postMessageToNative (READY, LOADED with a  *)
(* fileName, WEB_ERROR with a message) is read back from its JSON text     *)
(* with the same type and the same field values.                           *)
(***************************************************************************)
C22_EnvelopeRoundTrip ==
    \A m \in BagToSet(posted) : JSONparse(JSONstringify(m)) = m

\* READY, and LOADED for a file name that holds a quote and a backslash
C22_Witness ==
    /\ Count("READY") = 1
    /\ \E m \in BagToSet(posted) :
          /\ m.type = "LOADED"
          /\ {"\"", "\\"} \subseteq Range(m.fileName)

(***************************************************************************)
(* C23. The File a LOAD_DOCUMENT yields holds exactly the bytes whose      *)
(* standard base64 encoding its fileData is, for every byte sequence, the  *)
(* empty one and bytes above 127 included.                                 *)
(***************************************************************************)
C23_Base64RoundTrip ==
    [][(tasks = <<>> /\ tasks' # <<>>) =>
          \A B \in HostBytes :
              handleMessage(LoadDocument(base64Encode(B),
                                         tasks'[1].fileName)) =>
                  /\ ~atobThrows(base64Encode(B))
                  /\ selectedFile' = <<File(B, tasks'[1].fileName)>>
                  /\ Len(selectedFile'[1].bytes) = Len(B)]_vars

C23_Witness ==
    /\ selectedFile # <<>>
    /\ selectedFile[1].bytes = <<200, 255>>
    /\ tasks[1].pc = "loaded"

(***************************************************************************)
(* C24. A Word request completes as loaded only from renderAsync, that is  *)
(* after the renderer was called with the viewer element and resolved.     *)
(***************************************************************************)
C24_WordLoadedOnlyAfterRender ==
    [][\A i \in Requests :
          (Completes(i) /\ classify(tasks[i].fileName) = "word"
              /\ tasks'[i].pc = "loaded")
          => tasks[i].pc = "renderAsync"]_vars

(***************************************************************************)
(* C25. Whenever there is spreadsheet data, fileType is 'excel'.           *)
(***************************************************************************)
C25_ExcelDataOnlyWithExcelView == excelData # <<>> => fileType = "excel"

(***************************************************************************)
(* C26. A channel request passes exactly one message to the host, in the   *)
(* step in which it settles: LOADED with its fileName when it is loaded,   *)
(* WEB_ERROR with its failure otherwise.  No other step passes a LOADED,   *)
(* a settled request never moves again, and no request returns to an       *)
(* earlier stage of its processing.                                        *)
(***************************************************************************)
Settles(i) == Completes(i) \/ Fails(i)

Rank(pc) ==
    CASE pc \in {"fetch", "body"} -> 0
      [] pc = "arrayBuffer" -> 1
      [] pc \in {"renderAsync", "resolved", "rejected"} -> 2
      [] OTHER -> 3

C26_OneTerminalNotification ==
    [][/\ \A i \in 1..Len(tasks') :
             (tasks'[i].src = "channel" /\ Settles(i)) =>
                 posted' = posted (+) SetToBag({
                     IF tasks'[i].pc = "loaded"
                     THEN Loaded(tasks'[i].fileName)
                     ELSE WebError(errorMessage(tasks'[i].thrown,
                                                MsgLoadFallback))})
       /\ \A i \in 1..Len(tasks') :
             (tasks'[i].src = "upload" /\ Settles(i)) => UNCHANGED posted
       /\ (\A i \in 1..Len(tasks') : ~Settles(i)) =>
             /\ Count("LOADED")' = Count("LOADED")
             /\ Count("WEB_ERROR")' # Count("WEB_ERROR") =>
                   chatter' = chatter + 1
       /\ \A i \in Requests :
             /\ Rank(tasks'[i].pc) >= Rank(tasks[i].pc)
             /\ tasks[i].pc \in Settled => tasks'[i].pc = tasks[i].pc]_vars

\* of two channel requests, one failed in its processor and one was loaded
C26_Witness ==
    /\ Len(tasks) = 2
    /\ \A i \in Requests : tasks[i].src = "channel"
    /\ tasks[1].pc = "failed" /\ tasks[1].thrown \in ProcessorThrows
    /\ tasks[2].pc = "loaded"
    /\ chatter = 0
    /\ Count("LOADED") = 1
    /\ Count("WEB_ERROR") = 1

(***************************************************************************)
(* C27. When every started processor call resolves, the loading flag is    *)
(* eventually false for good, and it only ever turns true in a step that   *)
(* accepts a request.                                                      *)
(***************************************************************************)
C27_LoadingEnds ==
    /\ <>[](~isLoading)
    /\ [][(~isLoading /\ isLoading') => Len(tasks') = Len(tasks) + 1]_vars

\* two overlapping requests have settled, the older one last
C27_Witness ==
    /\ Len(tasks) = 2
    /\ \A i \in Requests : tasks[i].pc \in Settled
    /\ tasks[1].pc = "failed" /\ tasks[2].pc = "loaded"
    /\ error = tasks[1].thrown
    /\ ~isLoading

(***************************************************************************)
(* C28. The step that accepts a load with decodable data (channel or       *)
(* upload) sets the loading flag, clears the error text and the            *)
(* spreadsheet data and leaves the rendered document; fileType changes     *)
(* only by a request's processor starting, to that request's kind, and the *)
(* rendered document changes only by a Word request's processor going on   *)
(* or by the viewer element being mounted or removed.                      *)
(***************************************************************************)
AcceptFrame(name) ==
    /\ isLoading'
    /\ error' = ""
    /\ excelData' = <<>>
    /\ UNCHANGED <<viewerRef, viewerHTML>>
    /\ fileType' = IF classify(name) = "unknown" THEN fileType
                   ELSE classify(name)

C28_AcceptanceFrame ==
    [][/\ \A raw \in LoadMessages :
             (~atobThrows(raw.fileData) /\ handleMessage(raw)) =>
                 AcceptFrame(raw.fileName)
       /\ \A file \in UploadFiles :
             handleFileUpload(file) => AcceptFrame(file.name)
       /\ fileType' # fileType =>
             \E i \in 1..Len(tasks') :
                 Dispatches(i) /\ fileType' = classify(tasks'[i].fileName)
       /\ viewerHTML' # viewerHTML =>
             \/ viewerRef' # viewerRef
             \/ \E i \in Requests :
                   /\ classify(tasks[i].fileName) = "word"
                   /\ tasks[i].pc \in {"arrayBuffer", "renderAsync"}
                   /\ tasks'[i].pc # tasks[i].pc]_vars

\* a spreadsheet was accepted while a rendered Word document is on screen
C28_Witness ==
    /\ Len(tasks) = 2
    /\ tasks[1].pc = "loaded"
    /\ viewerHTML # <<>> /\ viewerHTML = tasks[1].file
    /\ tasks[2].pc = "arrayBuffer"
    /\ fileType = "excel"
    /\ isLoading /\ error = "" /\ excelData = <<>>

(***************************************************************************)
(* C29. The step that handles a LOAD_DOCUMENT whose fileData is not base64 *)
(* leaves the selected file, fileType and the rendered document as they    *)
(* were; it clears the spreadsheet data and the loading flag and sets the  *)
(* error text.                                                             *)
(***************************************************************************)
C29_FailedDecodeFrame ==
    [][\A raw \in LoadMessages :
          (atobThrows(raw.fileData) /\ handleMessage(raw)) =>
              /\ UNCHANGED <<selectedFile, fileType, viewerRef, viewerHTML>>
              /\ excelData' = <<>>
              /\ ~isLoading'
              /\ error' = MsgAtob]_vars

\* after a loaded document, a request that could not be decoded
C29_Witness ==
    /\ Len(tasks) = 2
    /\ tasks[1].pc = "loaded"
    /\ tasks[2].pc = "failed" /\ tasks[2].thrown = MsgAtob
    /\ selectedFile # <<>> /\ selectedFile = tasks[1].file
    /\ fileType = classify(tasks[1].fileName)
    /\ error = MsgAtob

(***************************************************************************)
(* C30. In every state of a session of channel and upload requests the     *)
(* selected file is the File of the latest request whose data was decoded, *)
(* and fileType is the kind of the latest such request with a supported    *)
(* name, in whatever order the processors complete.                        *)
(***************************************************************************)
Decoded == {i \in Requests : tasks[i].file # <<>>}
Supported == {i \in Decoded : classify(tasks[i].fileName) # "unknown"}
Latest(S) == CHOOSE i \in S : \A j \in S : j <= i

C30_SelectionFollowsAcceptance ==
    /\ selectedFile = IF Decoded = {} THEN <<>> ELSE tasks[Latest(Decoded)].file
    /\ fileType = IF Supported = {} THEN ""
                  ELSE classify(tasks[Latest(Supported)].fileName)

\* the later request has completed, the earlier one has not
C30_Witness ==
    /\ Len(tasks) = 2
    /\ tasks[1].fileName # tasks[2].fileName
    /\ tasks[1].pc \notin Settled
    /\ tasks[2].pc = "loaded"
    /\ classify(tasks[2].fileName) = "excel"
    /\ selectedFile = tasks[2].file

=============================================================================
